---- MODULE Spec2Model ----
(***************************************************************************)
(* Model of torch_audiomentations/augmentations/shift.py: the Shift        *)
(* transform (construction, randomize_parameters, apply_transform) and its *)
(* vectorised shift engine (Shift.shift).                                  *)
(*                                                                         *)
(* Two specifications share the variables:                                 *)
(*   Spec       the life of one Shift object: __init__, then any sequence  *)
(*              of randomize_parameters / apply_transform calls;           *)
(*   SpecShift  the pure function Shift.shift on bounded inputs, followed  *)
(*              by the inverse call shift(ret, -r) used by the round trip. *)
(***************************************************************************)
EXTENDS Integers, Sequences, FiniteSets, TLC

(***************************************************************************)
(* Bounds of the model.                                                    *)
(***************************************************************************)
MaxB == 2          \* batch sizes 1..MaxB
MaxC == 2          \* channel counts 1..MaxC
MaxT == 3          \* time lengths 1..MaxT
MaxShift == 3      \* engine shift amounts -MaxShift..MaxShift (covers |s| >= T)
MaxCells == 2      \* batches of at most MaxCells cells are enumerated over Values
MaxVal == 1        \* sample values 0..MaxVal of the enumerated batches
MaxRate == 1       \* sample rates -1..MaxRate (and None)
MaxHalf == 1       \* configured shifts -MaxHalf/2 .. MaxHalf/2 in steps of 1/2

(***************************************************************************)
(* Wide integers.  TLC's integers are 32 bits wide; Python ints and the    *)
(* int64 index tensors of the engine are wider.  A wide integer is a pair  *)
(* <<hi, lo>> with 0 <= lo < 2^16 standing for hi * 2^16 + lo.             *)
(***************************************************************************)
Base == 2^16

WNorm(h, l) == <<h + (l \div Base), l % Base>>
W(n) == WNorm(0, n)
WAdd(a, b) == WNorm(a[1] + b[1], a[2] + b[2])
WSub(a, b) == WNorm(a[1] - b[1], a[2] - b[2])
WMul(a, k) == WNorm(a[1] * k, a[2] * k)
WLt(a, b) == a[1] < b[1] \/ (a[1] = b[1] /\ a[2] < b[2])
WLe(a, b) == a = b \/ WLt(a, b)
\* floor(a / 2) and a mod 2
WHalf(a) == IF a[1] % 2 = 0 THEN <<a[1] \div 2, a[2] \div 2>>
            ELSE <<(a[1] - 1) \div 2, (a[2] + Base) \div 2>>
WOdd(a) == a[2] % 2 = 1
\* a mod m for a small positive m (Python's %, always in 0..m-1)
WMod(a, m) == (((a[1] % m) * (Base % m)) + (a[2] % m)) % m

Int32Max == 2147483647
Int32Min == -Int32Max - 1
\* the value of a wide integer as an int32 (two's complement wrap)
Wrap32(a) == (((a[1] + 2^15) % Base) - 2^15) * Base + a[2]


VARIABLES
    obj,                    \* the Shift object: NoObj, or its attributes
    transform_parameters,   \* self.transform_parameters: Absent, or the int32 vector
    last,                   \* the last call on the object and how it ended
    heap,                   \* storage: buffer id -> flat row-major data
    tensor,                 \* the batch handed to shift: [buf, shape]
    r,                      \* the shift vector handed to shift
    rolling,                \* the rolling flag handed to shift
    ret,                    \* the tensor shift returned
    back,                   \* the tensor returned by the inverse call shift(ret, -r)
    pc                      \* position of the caller of the engine

vars == <<obj, transform_parameters, last, heap, tensor, r, rolling, ret, back, pc>>
objVars == <<obj, transform_parameters, last>>
engineVars == <<heap, tensor, r, rolling, ret, back, pc>>

NoTensor == [buf |-> 0, shape |-> <<0, 0, 0>>]

(***************************************************************************)
(* Tensors: a shape <<b, c, t>> and a buffer holding b*c*t samples in      *)
(* row-major order, as tensor.flatten() lays them out.                     *)
(***************************************************************************)
Numel(shape) == shape[1] * shape[2] * shape[3]
Coords(shape) == (0 .. shape[1] - 1) \X (0 .. shape[2] - 1) \X (0 .. shape[3] - 1)
\* 0-based position of coordinate p in the flattened tensor
FlatPos(shape, p) == p[1] * shape[2] * shape[3] + p[2] * shape[3] + p[3]
\* the coordinate at 0-based flat position i
Unflat(shape, i) ==
    << i \div (shape[2] * shape[3]), (i \div shape[3]) % shape[2], i % shape[3] >>
\* .view(b, c, t) of a flat sequence, and back
At(data, shape, p) == data[FlatPos(shape, p) + 1]
Flat(g, shape) == [i \in 1 .. Numel(shape) |-> g[Unflat(shape, i - 1)]]

(***************************************************************************)
(* Shift.shift, whole-array operation by whole-array operation.            *)
(***************************************************************************)
\* x = torch.arange(t)[None, None, :].repeat(b, c, 1)
x(shape) == [p \in Coords(shape) |-> p[3]]

\* r[:, None, None], broadcast against x: a length-1 vector serves every b
RBroadcast(rv, b) == IF Len(rv) = 1 THEN rv[1] ELSE rv[b + 1]

\* idxs = (x - r): int64, so computed on wide integers
idxs(shape, rv) ==
    [p \in Coords(shape) |-> WSub(W(x(shape)[p]), W(RBroadcast(rv, p[1])))]

\* add = (torch.arange(b) * t * c)[:, None, None].repeat(1, c, t)
add(shape) == [p \in Coords(shape) |-> p[1] * shape[3] * shape[2]]

\* flat_idxs = add + idxs.long() % t
flat_idxs(shape, rv) ==
    [p \in Coords(shape) |-> add(shape)[p] + WMod(idxs(shape, rv)[p], shape[3])]

\* tensor.flatten()[flat_idxs.flatten()].view(b, c, t)
Gather(data, shape, rv) ==
    [p \in Coords(shape) |-> data[flat_idxs(shape, rv)[p] + 1]]

\* cut_points without the "+ 1" of line 124
cut_pointsNoPlusOne(shape, rv) ==
    [p \in Coords(shape) |->
        LET u == idxs(shape, rv)[p]
            clamped == IF WLt(u, W(0)) THEN W(0) ELSE u
        IN  IF WLt(W(shape[3]), clamped) THEN W(0) ELSE clamped]

\* cut_points = (x - r + 1).clamp(0); cut_points[cut_points > t] = 0
cut_points(shape, rv) ==
    [p \in Coords(shape) |->
        LET u == WAdd(idxs(shape, rv)[p], W(1))
            clamped == IF WLt(u, W(0)) THEN W(0) ELSE u
        IN  IF WLt(W(shape[3]), clamped) THEN W(0) ELSE clamped]

\* ret[cut_points == 0] = 0, applied to the data of ret's buffer
ZeroCut(data, shape, rv) ==
    [p \in Coords(shape) |->
        IF cut_points(shape, rv)[p] = W(0) THEN 0 ELSE At(data, shape, p)]

\* The buffer that holds the result of the advanced indexing of line 119:
\* indexing with an index tensor copies, so the buffer is a new one.
IndexResultBufAliased(h, src) == src
IndexResultBuf(h, src) == Cardinality(DOMAIN h) + 1

Store(h, b, data) == [k \in DOMAIN h \cup {b} |-> IF k = b THEN data ELSE h[k]]

\* The heap after shift(tensor, r, rolling) and the tensor it returns.
ShiftHeap(h, tn, rv, roll) ==
    LET nb == IndexResultBuf(h, tn.buf)
        h1 == Store(h, nb, Flat(Gather(h[tn.buf], tn.shape, rv), tn.shape))
    IN  IF roll THEN h1
        ELSE Store(h1, nb, Flat(ZeroCut(h1[nb], tn.shape, rv), tn.shape))
ShiftRet(h, tn) == [buf |-> IndexResultBuf(h, tn.buf), shape |-> tn.shape]

(***************************************************************************)
(* SpecShift: Shift.shift as a pure function of bounded inputs.            *)
(***************************************************************************)
Shapes == (1 .. MaxB) \X (1 .. MaxC) \X (1 .. MaxT)
Values == 0 .. MaxVal
Iota(shape) == [i \in 1 .. Numel(shape) |-> i]
Ones(shape) == [i \in 1 .. Numel(shape) |-> 1]
Batches(shape) ==
    {Iota(shape), Ones(shape)} \cup
    (IF Numel(shape) <= MaxCells THEN [1 .. Numel(shape) -> Values] ELSE {})
ShiftAmounts == -MaxShift .. MaxShift

\* -r on an int32 tensor
Neg32(s) == IF s = Int32Min THEN Int32Min ELSE -s

InitObj ==
    /\ obj = <<>>
    /\ transform_parameters = <<>>
    /\ last = [op |-> "none"]

InitShift ==
    /\ InitObj
    /\ \E shape \in Shapes :
          /\ tensor = [buf |-> 1, shape |-> shape]
          /\ \E data \in Batches(shape) : heap = Store(<<>>, 1, data)
          /\ r \in [1 .. shape[1] -> ShiftAmounts]
    /\ rolling \in BOOLEAN
    /\ ret = NoTensor
    /\ back = NoTensor
    /\ pc = "ready"

\* ret = shift(tensor, r, rolling)
ShiftCall ==
    /\ pc = "ready"
    /\ heap' = ShiftHeap(heap, tensor, r, rolling)
    /\ ret' = ShiftRet(heap, tensor)
    /\ pc' = "done"
    /\ UNCHANGED <<tensor, r, rolling, back, objVars>>

\* back = shift(ret, -r, rolling)
ShiftInverse ==
    /\ pc = "done"
    /\ heap' = ShiftHeap(heap, ret, [i \in 1 .. Len(r) |-> Neg32(r[i])], rolling)
    /\ back' = ShiftRet(heap, ret)
    /\ pc' = "back"
    /\ UNCHANGED <<tensor, r, rolling, ret, objVars>>

NextShift == ShiftCall \/ ShiftInverse
SpecShift == InitShift /\ [][NextShift]_vars


(***************************************************************************)
(* Spec: one Shift object.                                                 *)
(*                                                                         *)
(* min_shift and max_shift are Python numbers.  The model holds them in    *)
(* halves, as wide integers: h stands for h/2, so -0.5 is W(-1).  In the   *)
(* unit "samples" the configured numbers are whole numbers.                *)
(***************************************************************************)
Units == {"fraction", "samples", "seconds"}

\* round(h/2): Python 3 rounds a tie to the even neighbour
Round(h) ==
    LET q == WHalf(h)
    IN  IF WOdd(h) /\ WOdd(q) THEN WAdd(q, W(1)) ELSE q

\* Optional[int]: None is <<>>, the rate n is <<n>>
None == <<>>

\* lines 52-62: the exception the conversion raises, "none" when it raises none
\* (a missing sample rate makes the multiplication raise TypeError)
ConversionError(o, sample_rate) ==
    IF o.shift_unit \in {"samples", "fraction"} THEN "none"
    ELSE IF o.shift_unit = "seconds"
         THEN IF sample_rate = None THEN "TypeError" ELSE "none"
    ELSE "ValueError"

\* lines 52-60: the bound converted to samples
InSamples(o, halves, T, sample_rate) ==
    IF o.shift_unit = "samples" THEN WHalf(halves)
    ELSE IF o.shift_unit = "fraction" THEN Round(WMul(halves, T))
    ELSE Round(WMul(halves, sample_rate[1]))

\* lines 64-73: torch.iinfo(torch.int32).min <= v <= torch.iinfo(torch.int32).max
InInt32OffByOne(v) == WLe(W(Int32Min), v) /\ WLe(v, WAdd(W(Int32Max), W(1)))
InInt32(v) == WLe(W(Int32Min), v) /\ WLe(v, W(Int32Max))

\* lines 74-77
selected_batch_sizeAnyRank(dim, size0) == size0
selected_batch_size(dim, size0) == IF dim = 2 THEN 1 ELSE size0

\* lines 86-92: values torch.randint(low, high + 1) may return, low < high + 1.
\* Every value of low..high is possible; the model draws the two ends.
Draws(lo, hi) == {lo, hi}

\* lines 44-47: the checks of __init__
CtorRejectsUnitOnly(mn, mx, unit) == unit \notin Units
CtorRejects(mn, mx, unit) == WLt(mx, mn) \/ unit \notin Units

\* lines 94-98: apply_transform reads num_samples_to_shift and leaves it stored
ParamsAfterApplyDiscarded(tp) == <<>>
ParamsAfterApply(tp) == tp

SmallHalves == {W(h) : h \in -MaxHalf .. MaxHalf}
BigHalves ==
    { WMul(W(Int32Max), 2), WMul(WAdd(W(Int32Max), W(1)), 2),
      WMul(W(Int32Min), 2), WMul(WSub(W(Int32Min), W(1)), 2) }
ConfigNumbers == SmallHalves \cup BigHalves
SampleRates == {None} \cup {<<n>> : n \in -1 .. MaxRate}

\* The calls of randomize_parameters the model makes on object o: a rank-2
\* batch (MaxC, T) or a rank-3 batch (size0, ., T).  T is read by the unit
\* "fraction" alone and sample_rate by the unit "seconds" alone, so they vary
\* for those units only.
RandomizeCalls(o) ==
    [ rank : ({<<2, MaxC>>} \cup {<<3, b>> : b \in 1 .. MaxB}),
      T : (IF o.shift_unit = "fraction" THEN 1 .. MaxT ELSE {MaxT}),
      sample_rate : (IF o.shift_unit = "seconds" THEN SampleRates ELSE {None}) ]

\* The batches the model hands to apply_transform: rank 2 (MaxC, MaxT), or
\* rank 3 (b, MaxC, MaxT); samples numbered 1, 2, ... in row-major order.
ApplyCalls ==
    {[dim |-> 2, shape |-> <<1, MaxC, MaxT>>]} \cup
    {[dim |-> 3, shape |-> <<b, MaxC, MaxT>>] : b \in 1 .. MaxB}

IdleEngine ==
    /\ heap = <<>>
    /\ tensor = NoTensor
    /\ r = <<>>
    /\ rolling = FALSE
    /\ ret = NoTensor
    /\ back = NoTensor
    /\ pc = "idle"

Init == InitObj /\ IdleEngine

\* the arguments and locals of an earlier shift call are gone
ResetEngine ==
    /\ heap' = <<>>
    /\ tensor' = NoTensor
    /\ r' = <<>>
    /\ rolling' = FALSE
    /\ ret' = NoTensor
    /\ back' = NoTensor
    /\ pc' = "idle"

NoObj == <<>>
HasParams(tp) == "num_samples_to_shift" \in DOMAIN tp

\* Shift(min_shift, max_shift, shift_unit, rollover); with the unit "samples"
\* the two numbers are whole numbers of samples
Construct ==
    /\ last.op = "none"
    /\ \E mn \in ConfigNumbers, mx \in ConfigNumbers,
          unit \in Units \cup {"bogus"}, roll \in BOOLEAN :
          /\ unit = "samples" => ~WOdd(mn) /\ ~WOdd(mx)
          /\ IF CtorRejects(mn, mx, unit)
             THEN /\ obj' = obj
                  /\ last' = [op |-> "init", status |-> "ValueError",
                              min_shift |-> mn, max_shift |-> mx, shift_unit |-> unit]
             ELSE /\ obj' = [min_shift |-> mn, max_shift |-> mx,
                             shift_unit |-> unit, rollover |-> roll]
                  /\ last' = [op |-> "init", status |-> "ok",
                              min_shift |-> mn, max_shift |-> mx, shift_unit |-> unit]
    /\ UNCHANGED <<transform_parameters, engineVars>>

\* randomize_parameters(selected_samples, sample_rate)
RandomizeParameters ==
    /\ obj # NoObj
    /\ \E c \in RandomizeCalls(obj) :
          LET dim == c.rank[1]
              size0 == c.rank[2]
              err == ConversionError(obj, c.sample_rate)
              lo == InSamples(obj, obj.min_shift, c.T, c.sample_rate)
              hi == InSamples(obj, obj.max_shift, c.T, c.sample_rate)
              n == selected_batch_size(dim, size0)
              call(st) == [op |-> "randomize", status |-> st, dim |-> dim,
                           size0 |-> size0, T |-> c.T, sample_rate |-> c.sample_rate]
          IN  IF err # "none"
              THEN /\ last' = call(err)
                   /\ transform_parameters' = transform_parameters
              ELSE IF ~(InInt32(lo) /\ InInt32(hi))
              THEN /\ last' = call("AssertionError")
                   /\ transform_parameters' = transform_parameters
              ELSE IF lo = hi
              THEN \* torch.full(size=(n,), fill_value=lo, dtype=torch.int32)
                   /\ last' = call("ok")
                   /\ transform_parameters' =
                          [num_samples_to_shift |-> [i \in 1 .. n |-> Wrap32(lo)]]
              ELSE IF WLt(hi, lo)
              THEN \* torch.randint refuses low >= high
                   /\ last' = call("RuntimeError")
                   /\ transform_parameters' = transform_parameters
              ELSE /\ last' = call("ok")
                   /\ \E v \in [1 .. n -> Draws(Wrap32(lo), Wrap32(hi))] :
                          transform_parameters' = [num_samples_to_shift |-> v]
    /\ obj' = obj
    /\ ResetEngine

\* apply_transform(selected_samples)
ApplyTransform ==
    /\ obj # NoObj
    /\ \E c \in ApplyCalls :
          LET fresh == last.op = "randomize" /\ last.status = "ok"
              call(st) == [op |-> "apply", status |-> st, dim |-> c.dim, fresh |-> fresh]
              tn == [buf |-> 1, shape |-> c.shape]
              h == Store(<<>>, 1, Iota(c.shape))
          IN  IF ~HasParams(transform_parameters)
              THEN /\ last' = call("KeyError")
                   /\ ResetEngine
              ELSE IF Len(transform_parameters.num_samples_to_shift) \notin {1, c.shape[1]}
              THEN \* r[:, None, None] does not broadcast against x, or the view fails
                   /\ last' = call("RuntimeError")
                   /\ ResetEngine
              ELSE /\ last' = call("ok")
                   /\ tensor' = tn
                   /\ r' = transform_parameters.num_samples_to_shift
                   /\ rolling' = obj.rollover
                   /\ heap' = ShiftHeap(h, tn, r', rolling')
                   /\ ret' = ShiftRet(h, tn)
                   /\ back' = NoTensor
                   /\ pc' = "idle"
    /\ transform_parameters' = ParamsAfterApply(transform_parameters)
    /\ obj' = obj

Next == Construct \/ RandomizeParameters \/ ApplyTransform
Spec == Init /\ [][Next]_vars


(***************************************************************************)
(* Properties of the shift engine, checked under SpecShift.                *)
(***************************************************************************)
In(p) == At(heap[tensor.buf], tensor.shape, p)
Out(p) == At(heap[ret.buf], tensor.shape, p)
T0 == tensor.shape[3]

\* C1: with rolling = TRUE, output[b,c,t] = input[b, c, (t - shifts[b]) mod T]
\* (floor modulo) at every coordinate: channel c comes from channel c.
C1_IndexLaw ==
    (pc = "done" /\ rolling) =>
        \A p \in Coords(tensor.shape) :
            Out(p) = In(<<p[1], p[2], (p[3] - r[p[1] + 1]) % T0>>)

\* C2: with rolling = FALSE, output[b,c,t] = input[b, c, t - s] when
\* 0 <= t - s < T and 0 otherwise, s = shifts[b].
C2_ZeroFill ==
    (pc = "done" /\ ~rolling) =>
        \A p \in Coords(tensor.shape) :
            LET u == p[3] - r[p[1] + 1]
            IN  Out(p) = IF 0 <= u /\ u < T0 THEN In(<<p[1], p[2], u>>) ELSE 0

\* C3: with rolling = TRUE, shifting by s and then by -s gives back the
\* original batch at every coordinate.
C3_RoundTrip ==
    (pc = "back" /\ rolling) =>
        /\ back.shape = tensor.shape
        /\ heap[back.buf] = heap[tensor.buf]

\* C4: with rolling = FALSE, a ones array of shape (1, 1, T) shifted by s,
\* 0 < |s| < T, is s zeros then T - s ones when s > 0, and T + s ones then
\* -s zeros when s < 0.
C4_OnesZeroFill ==
    ( /\ pc = "done"
      /\ ~rolling
      /\ tensor.shape = <<1, 1, T0>>
      /\ heap[tensor.buf] = Ones(tensor.shape)
      /\ r[1] # 0
      /\ -T0 < r[1]
      /\ r[1] < T0 ) =>
        heap[ret.buf] =
            [i \in 1 .. T0 |->
                IF r[1] > 0 THEN (IF i <= r[1] THEN 0 ELSE 1)
                ELSE (IF i <= T0 + r[1] THEN 1 ELSE 0)]

C4_Witness ==
    /\ pc = "done"
    /\ ~rolling
    /\ tensor.shape = <<1, 1, 3>>
    /\ heap[tensor.buf] = <<1, 1, 1>>
    /\ r = <<-2>>
    /\ heap[ret.buf] = <<1, 0, 0>>

\* C10: shift never changes its input: every sample of the input batch is
\* the same after the call, and the output is another array of the same shape.
C10_InputUnchanged ==
    [][ (pc = "ready" /\ pc' = "done") =>
            /\ heap'[tensor.buf] = heap[tensor.buf]
            /\ ret'.buf # tensor.buf
            /\ ret'.shape = tensor.shape
            /\ Len(heap'[ret'.buf]) = Numel(tensor.shape) ]_vars

C10_Witness ==
    /\ pc = "done"
    /\ ~rolling
    /\ ret.buf # tensor.buf
    /\ \E p \in Coords(tensor.shape) : Out(p) = 0 /\ In(p) # 0

(***************************************************************************)
(* Properties of the Shift object, checked under Spec.                     *)
(***************************************************************************)
Stored == transform_parameters.num_samples_to_shift
\* the converted bounds of the randomize_parameters call recorded in `last`
LastLo == InSamples(obj, obj.min_shift, last.T, last.sample_rate)
LastHi == InSamples(obj, obj.max_shift, last.T, last.sample_rate)
Fits32(v) == WLe(W(Int32Min), v) /\ WLe(v, W(Int32Max))

\* C5: with shift_unit "seconds", randomize_parameters given no sample rate
\* or a sample rate <= 0 fails; it never completes by storing a vector.
C5_MissingSampleRate ==
    ( /\ last.op = "randomize"
      /\ obj.shift_unit = "seconds"
      /\ (last.sample_rate = None \/ last.sample_rate[1] <= 0) ) =>
        last.status # "ok"

\* C6 as stated: a successful apply_transform uses a vector made by the
\* randomize_parameters call just before it, and the vector is discarded
\* once applied.
C6_Ephemeral ==
    (last.op = "apply" /\ last.status = "ok") =>
        (last.fresh /\ ~HasParams(transform_parameters))

\* C6 as amended: the vector stays stored.  Only a successful
\* randomize_parameters changes transform_parameters; a successful
\* apply_transform hands the stored vector to shift and leaves it stored; an
\* apply_transform with nothing stored fails.
C6_StoredVectorReused ==
    [][ /\ (transform_parameters' # transform_parameters) =>
               (last'.op = "randomize" /\ last'.status = "ok")
        /\ (last'.op = "apply" /\ last'.status = "ok") =>
               /\ HasParams(transform_parameters)
               /\ r' = transform_parameters.num_samples_to_shift
               /\ HasParams(transform_parameters')
        /\ (last'.op = "apply" /\ ~HasParams(transform_parameters)) =>
               last'.status = "KeyError" ]_vars

C6_Witness ==
    /\ last.op = "apply"
    /\ last.status = "ok"
    /\ ~last.fresh
    /\ HasParams(transform_parameters)
    /\ r = Stored

\* C7: when the converted bounds lo <= hi both fit in int32, the call
\* succeeds and stores a vector of length B (1 for a rank-2 batch, else
\* shape[0]) with every element in [lo, hi]; when lo = hi = k it is [k]*B.
C7_VectorInRange ==
    ( /\ last.op = "randomize"
      /\ ~(obj.shift_unit = "seconds" /\ last.sample_rate = None)
      /\ Fits32(LastLo)
      /\ Fits32(LastHi)
      /\ WLe(LastLo, LastHi) ) =>
        /\ last.status = "ok"
        /\ HasParams(transform_parameters)
        /\ Len(Stored) = (IF last.dim = 2 THEN 1 ELSE last.size0)
        /\ \A i \in 1 .. Len(Stored) :
              /\ WLe(LastLo, W(Stored[i]))
              /\ WLe(W(Stored[i]), LastHi)
        /\ obj.shift_unit = "samples" =>
              \A i \in 1 .. Len(Stored) :
                  /\ WLe(WMul(W(Stored[i]), 2), obj.max_shift)
                  /\ WLe(obj.min_shift, WMul(W(Stored[i]), 2))

C7_Witness ==
    /\ last.op = "randomize"
    /\ last.status = "ok"
    /\ last.dim = 3
    /\ HasParams(transform_parameters)
    /\ Len(Stored) = 2
    /\ Stored[1] = Int32Min
    /\ Stored[2] = Int32Max

\* C8: Shift(...) with min_shift > max_shift, or with a shift_unit other
\* than "fraction", "samples", "seconds", raises and yields no object; so
\* no object has inverted bounds or an unknown unit, and
\* randomize_parameters never takes its "Invalid shift_unit" branch.
C8_CtorRejects ==
    /\ ( /\ last.op = "init"
         /\ (WLt(last.max_shift, last.min_shift) \/ last.shift_unit \notin Units) ) =>
           (last.status = "ValueError" /\ obj = NoObj)
    /\ obj # NoObj =>
           (WLe(obj.min_shift, obj.max_shift) /\ obj.shift_unit \in Units)
    /\ last.op = "randomize" => last.status # "ValueError"

C8_Witness ==
    /\ last.op = "init"
    /\ last.status = "ValueError"
    /\ last.shift_unit \in Units
    /\ WLt(last.max_shift, last.min_shift)
    /\ obj = NoObj

\* C9: when a converted bound is outside [-2^31, 2^31 - 1], the
\* randomize_parameters call fails and leaves num_samples_to_shift as it was.
C9_OutOfRangeFails ==
    [][ ( /\ last'.op = "randomize"
          /\ ~(obj.shift_unit = "seconds" /\ last'.sample_rate = None)
          /\ LET lo == InSamples(obj, obj.min_shift, last'.T, last'.sample_rate)
                 hi == InSamples(obj, obj.max_shift, last'.T, last'.sample_rate)
             IN  ~Fits32(lo) \/ ~Fits32(hi) ) =>
            /\ last'.status = "AssertionError"
            /\ transform_parameters' = transform_parameters ]_vars

C9_Witness ==
    /\ last.op = "randomize"
    /\ last.status = "AssertionError"
    /\ ~Fits32(LastHi)
    /\ Fits32(LastLo)
    /\ HasParams(transform_parameters)

====
